---- MODULE Spec2Model ----
(***************************************************************************)
(* A model of src/agent/llm_player.py: the row encoder, the scoring        *)
(* heuristic, _extract_json, _validate_decision and LLMPlayer.choose_move  *)
(* with its fallback chain and best-effort event log.                      *)
(*                                                                         *)
(* Conventions.  Python indices are kept 0-based in every `index` field;   *)
(* a Python list l is a TLA+ sequence and l[i] is At(l, i).  An accuracy   *)
(* is an integer number of 1/10000ths (One is the float 1.0), chosen so    *)
(* that acc / 100.0 is exact on every value drawn.  An upstream object is  *)
(* a record of its attribute values together with the set of attributes    *)
(* that are absent (reading them raises AttributeError) and the set that   *)
(* are None.                                                               *)
(*                                                                         *)
(* Left out: console printing (LOG_MODE), which only reads the rows and    *)
(* dec, and the turn, opponent, weather and terrain entries of the state   *)
(* summary, which only travel to the oracle and the event log.  The lines  *)
(* of TRACE_FILE kept are those appended by the call in progress.          *)
(***************************************************************************)
EXTENDS Integers, Sequences, FiniteSets, TLC

VARIABLES
    client,       \* self._client is not None (set by __init__)
    traceFile,    \* TRACE_FILE is configured (module level)
    pc,           \* position of the current choose_move call
    battle,       \* the battle snapshot handed to choose_move
    oracle,       \* what the chat-completion call does in this call
    move_rows,    \* choose_move's move_rows
    switch_rows,  \* choose_move's switch_rows
    state,        \* choose_move's state summary
    verdict,      \* what _validate_decision returned, if it was called
    failure,      \* str(e) of the exception _llm_decide raised, "" if none
    dec,          \* choose_move's dec
    order,        \* what choose_move returned
    raised,       \* choose_move itself raised
    trace,        \* the lines this call appended to TRACE_FILE
    ioErrors,     \* the writes to TRACE_FILE that failed in this call
    text,         \* _extract_json's argument
    extracted     \* _extract_json's outcome

vars == <<client, traceFile, pc, battle, oracle, move_rows, switch_rows, state,
          verdict, failure, dec, order, raised, trace, ioErrors, text, extracted>>

(***************************************************************************)
(* Bounds                                                                  *)
(***************************************************************************)
MaxMoves == 2        \* longest legal-moves list drawn
MaxSwitches == 2     \* longest legal-switches list drawn
MaxIndex == 2        \* largest index an oracle answer carries (least is -1)
MaxDefects == 2      \* most attributes absent or None on one upstream object
MaxEncMoves == 2     \* longest legal-moves list of defective objects
MaxTextLen == 9      \* longest oracle text given to _extract_json

One == 100 * 100     \* the accuracy 1.0

At(l, i) == l[i + 1]
Min(a, b) == IF a <= b THEN a ELSE b
Max(a, b) == IF a >= b THEN a ELSE b

(***************************************************************************)
(* Upstream objects                                                        *)
(***************************************************************************)
NoType == "<no type>"      \* a None entry of Pokemon.types
NoStatus == "<None>"       \* status None

MoveAttrs == {"id", "name", "type", "accuracy", "base_power", "priority",
              "damage_class", "current_pp", "max_pp"}
MonAttrs == {"species", "name", "types", "current_hp", "max_hp", "status"}

Tackle == [id |-> "tackle", name |-> "Tackle", type |-> "NORMAL", accuracy |-> One,
           base_power |-> 40, priority |-> 0, damage_class |-> "PHYSICAL",
           current_pp |-> 35, max_pp |-> 56, absent |-> {}, none |-> {}]
Ember == [id |-> "ember", name |-> "Ember", type |-> "FIRE", accuracy |-> One,
          base_power |-> 40, priority |-> 0, damage_class |-> "SPECIAL",
          current_pp |-> 25, max_pp |-> 40, absent |-> {"name"}, none |-> {}]
Slam == [id |-> "slam", name |-> "Slam", type |-> "NORMAL", accuracy |-> 7500,
         base_power |-> 80, priority |-> 0, damage_class |-> "PHYSICAL",
         current_pp |-> 20, max_pp |-> 32, absent |-> {}, none |-> {}]
Growl == [id |-> "growl", name |-> "Growl", type |-> "NORMAL", accuracy |-> One,
          base_power |-> 0, priority |-> 0, damage_class |-> "STATUS",
          current_pp |-> 40, max_pp |-> 64, absent |-> {}, none |-> {}]
MoveDex == {Tackle, Ember, Slam, Growl}

Charmander == [species |-> "Charmander", name |-> "Charmander", types |-> <<"FIRE", NoType>>,
               current_hp |-> 39, max_hp |-> 39, status |-> NoStatus,
               absent |-> {}, none |-> {"status"}]
Pidgey == [species |-> "Pidgey", name |-> "Pidgey", types |-> <<"NORMAL", "FLYING">>,
           current_hp |-> 5, max_hp |-> 40, status |-> "PSN",
           absent |-> {}, none |-> {}]
Ditto == [species |-> "Ditto", name |-> "Ditto", types |-> <<"NORMAL", NoType>>,
          current_hp |-> 0, max_hp |-> 0, status |-> "SLP",
          absent |-> {}, none |-> {}]
MonDex == {Pidgey, Ditto}

\* Lists without repetition of at most n members of S.
RECURSIVE ListsOf(_, _)
ListsOf(S, n) ==
    IF n = 0 THEN {<<>>}
    ELSE LET shorter == ListsOf(S, n - 1)
         IN  shorter \cup
             UNION {{Append(l, x) : x \in {y \in S : \A k \in DOMAIN l : l[k] # y}} :
                    l \in {k \in shorter : Len(k) = n - 1}}

Readable(o, a) == a \notin o.absent /\ a \notin o.none

\* str.lower() on the strings drawn
Lower(s) ==
    CASE s = "Tackle" -> "tackle"
      [] s = "Ember" -> "ember"
      [] s = "Slam" -> "slam"
      [] s = "Growl" -> "growl"
      [] s = "Charmander" -> "charmander"
      [] s = "Pidgey" -> "pidgey"
      [] s = "Ditto" -> "ditto"
      [] OTHER -> s

(***************************************************************************)
(* Row encoder                                                             *)
(***************************************************************************)
\* _safe_types: the names of the entries of obj.types that have one
RECURSIVE TypeNames(_)
TypeNames(ts) ==
    IF ts = <<>> THEN <<>>
    ELSE IF Head(ts) = NoType THEN TypeNames(Tail(ts))
    ELSE <<Head(ts)>> \o TypeNames(Tail(ts))

safe_types(obj) == IF Readable(obj, "types") THEN TypeNames(obj.types) ELSE <<>>

\* int(round(n / d)) for n >= 0, d > 0: Python rounds halves to even
RoundDiv(n, d) ==
    LET q == n \div d
        r == n % d
    IN  IF 2 * r < d THEN q
        ELSE IF 2 * r > d THEN q + 1
        ELSE IF q % 2 = 0 THEN q ELSE q + 1

hp_pct(p) ==
    IF "current_hp" \in p.absent THEN 100
    ELSE IF "current_hp" \in p.none THEN 100
    ELSE IF "max_hp" \in p.absent THEN 100
    ELSE IF "max_hp" \in p.none \/ p.max_hp = 0 THEN 100
    ELSE Max(0, Min(100, RoundDiv(100 * p.current_hp, p.max_hp)))

status_of(p) == IF Readable(p, "status") THEN p.status ELSE NoStatus

move_accuracy(m) ==
    IF "accuracy" \in m.absent THEN One
    ELSE IF "accuracy" \in m.none \/ m.accuracy = 0 THEN One
    ELSE IF m.accuracy <= One THEN m.accuracy
    ELSE m.accuracy \div 100

move_base_power(m) ==
    IF Readable(m, "base_power") THEN Max(0, m.base_power) ELSE 0

\* me_active is a list of at most one Pokemon (Optional[Pokemon])
is_stab(move, me_active) ==
    IF me_active = <<>> THEN FALSE
    ELSE IF ~Readable(move, "type") THEN FALSE
    ELSE \E k \in DOMAIN safe_types(me_active[1]) :
             safe_types(me_active[1])[k] = move.type

category(m) == IF Readable(m, "damage_class") THEN m.damage_class ELSE "STATUS"

priority(m) == IF Readable(m, "priority") THEN m.priority ELSE 0

\* getattr(m, "id", getattr(m, "name", f"move{i}")): "<None>" stands for None
NoneStr == "<None>"
move_id_attr(i, m) ==
    IF "id" \notin m.absent
    THEN (IF "id" \in m.none THEN NoneStr ELSE m.id)
    ELSE IF "name" \notin m.absent
    THEN (IF "name" \in m.none THEN NoneStr ELSE m.name)
    ELSE "move" \o ToString(i)

\* getattr(m, "name", getattr(m, "id", f"move{i}")) or f"move{i}"
move_name_attr(i, m) ==
    LET got == IF "name" \notin m.absent
               THEN (IF "name" \in m.none THEN NoneStr ELSE m.name)
               ELSE IF "id" \notin m.absent
               THEN (IF "id" \in m.none THEN NoneStr ELSE m.id)
               ELSE "move" \o ToString(i)
    IN  IF got = NoneStr THEN "move" \o ToString(i) ELSE got

\* int(getattr(m, "current_pp", getattr(m, "max_pp", 0)) or 0)
move_pp(m) ==
    IF "current_pp" \notin m.absent
    THEN (IF "current_pp" \in m.none THEN 0 ELSE m.current_pp)
    ELSE IF Readable(m, "max_pp") THEN m.max_pp ELSE 0

\* _move_row: the row, or raised when .lower() is called on None
move_row(i, m, me_active) ==
    [raised |-> move_id_attr(i, m) = NoneStr,
     row |-> [kind |-> "move",
              index |-> i,
              id |-> Lower(move_id_attr(i, m)),
              name |-> Lower(move_name_attr(i, m)),
              type |-> IF Readable(m, "type") THEN m.type ELSE "UNKNOWN",
              base_power |-> move_base_power(m),
              accuracy |-> move_accuracy(m),
              priority |-> priority(m),
              category |-> category(m),
              pp |-> move_pp(m),
              is_stab |-> is_stab(m, me_active)]]

\* getattr(p, "species", getattr(p, "name", f"p{i}")) or f"p{i}"
species_attr(i, p) ==
    LET got == IF "species" \notin p.absent
               THEN (IF "species" \in p.none THEN NoneStr ELSE p.species)
               ELSE IF "name" \notin p.absent
               THEN (IF "name" \in p.none THEN NoneStr ELSE p.name)
               ELSE "p" \o ToString(i)
    IN  IF got = NoneStr THEN "p" \o ToString(i) ELSE got

switch_row(i, p) ==
    [raised |-> FALSE,
     row |-> [kind |-> "switch",
              index |-> i,
              species |-> Lower(species_attr(i, p)),
              types |-> safe_types(p),
              hp_pct |-> hp_pct(p),
              status |-> status_of(p)]]

\* [_move_row(i, m, me_active) for i, m in enumerate(moves)]
EncodeMoves(moves, me_active) ==
    [raised |-> \E k \in DOMAIN moves : move_row(k - 1, moves[k], me_active).raised,
     rows |-> [k \in DOMAIN moves |-> move_row(k - 1, moves[k], me_active).row]]

\* [_switch_row(i, p) for i, p in enumerate(switches)]
EncodeSwitches(switches) ==
    [raised |-> \E k \in DOMAIN switches : switch_row(k - 1, switches[k]).raised,
     rows |-> [k \in DOMAIN switches |-> switch_row(k - 1, switches[k]).row]]

(***************************************************************************)
(* Scoring heuristic, validator, event log                                 *)
(***************************************************************************)
\* _score_move_row, times 2 * One: bp * clamp(acc, 0, 1) * (1.5 if STAB else 1.0)
score_move_row(r) ==
    r.base_power * Max(0, Min(One, r.accuracy)) * (IF r.is_stab THEN 3 ELSE 2)

\* max(range(len(rows)), key=score): the scan keeps the first maximum met
RECURSIVE MaxScan(_, _, _)
MaxScan(rows, i, best) ==
    IF i >= Len(rows) THEN best
    ELSE IF score_move_row(At(rows, i)) > score_move_row(At(rows, best))
    THEN MaxScan(rows, i + 1, i)
    ELSE MaxScan(rows, i + 1, best)

MaxScanLast(rows) ==
    LET top == CHOOSE i \in 0..(Len(rows) - 1) :
                   /\ \A j \in 0..(Len(rows) - 1) :
                          score_move_row(At(rows, j)) <= score_move_row(At(rows, i))
                   /\ \A j \in (i + 1)..(Len(rows) - 1) :
                          score_move_row(At(rows, j)) < score_move_row(At(rows, i))
    IN  top

best_index(rows) == MaxScan(rows, 1, 0)

\* f"{act}" for dec.get("action"): NoneStr stands for a dict without the key
ActionText(act) == IF act = NoneStr THEN "None" ELSE act

Count(rows, kind) == Cardinality({k \in DOMAIN rows : rows[k].kind = kind})

ValidateRangeFirst(d, rows, st) ==
    IF d.action \notin {"move", "switch", "force_switch"}
    THEN [ok |-> FALSE, err |-> "bad_action:" \o ActionText(d.action)]
    ELSE IF ~d.isInt THEN [ok |-> FALSE, err |-> "index_not_int"]
    ELSE IF d.action \in {"move", "force_switch"}
            /\ (d.index < 0 \/ d.index >= Count(rows, "move"))
    THEN [ok |-> FALSE, err |-> "index_out_of_range_move"]
    ELSE IF d.action = "switch" /\ (d.index < 0 \/ d.index >= Count(rows, "switch"))
    THEN [ok |-> FALSE, err |-> "index_out_of_range_switch"]
    ELSE IF st.force_switch /\ d.action = "move"
    THEN [ok |-> FALSE, err |-> "must_switch"]
    ELSE [ok |-> TRUE, err |-> ""]

ValidateOffByOne(d, rows, st) ==
    IF d.action \notin {"move", "switch", "force_switch"}
    THEN [ok |-> FALSE, err |-> "bad_action:" \o ActionText(d.action)]
    ELSE IF ~d.isInt THEN [ok |-> FALSE, err |-> "index_not_int"]
    ELSE IF st.force_switch /\ d.action = "move"
    THEN [ok |-> FALSE, err |-> "must_switch"]
    ELSE IF d.action \in {"move", "force_switch"}
            /\ (d.index < 0 \/ d.index > Count(rows, "move"))
    THEN [ok |-> FALSE, err |-> "index_out_of_range_move"]
    ELSE IF d.action = "switch" /\ (d.index < 0 \/ d.index > Count(rows, "switch"))
    THEN [ok |-> FALSE, err |-> "index_out_of_range_switch"]
    ELSE [ok |-> TRUE, err |-> ""]

\* _validate_decision on a dict d: d.action is dec.get("action") (NoneStr when the
\* key is missing), d.isInt is isinstance(idx, int), d.index the index when it is an int.
\* _extract_json returns dicts only, so the not_dict exit is never taken.
validate_decision(d, rows, st) ==
    IF d.action \notin {"move", "switch", "force_switch"}
    THEN [ok |-> FALSE, err |-> "bad_action:" \o ActionText(d.action)]
    ELSE IF ~d.isInt THEN [ok |-> FALSE, err |-> "index_not_int"]
    ELSE IF st.force_switch /\ d.action = "move"
    THEN [ok |-> FALSE, err |-> "must_switch"]
    ELSE IF d.action \in {"move", "force_switch"}
            /\ (d.index < 0 \/ d.index >= Count(rows, "move"))
    THEN [ok |-> FALSE, err |-> "index_out_of_range_move"]
    ELSE IF d.action = "switch" /\ (d.index < 0 \/ d.index >= Count(rows, "switch"))
    THEN [ok |-> FALSE, err |-> "index_out_of_range_switch"]
    ELSE [ok |-> TRUE, err |-> ""]

TraceUncaught(file, writeOk, log, event) ==
    IF ~file THEN [log |-> log, raised |-> FALSE, failed |-> FALSE]
    ELSE IF writeOk THEN [log |-> Append(log, event), raised |-> FALSE, failed |-> FALSE]
    ELSE [log |-> log, raised |-> TRUE, failed |-> TRUE]

\* _trace(event, ...): nothing without TRACE_FILE; else one line appended, a failed
\* open or write swallowed.  raised says whether the call raised, failed whether
\* the write failed.
Trace(file, writeOk, log, event) ==
    IF ~file THEN [log |-> log, raised |-> FALSE, failed |-> FALSE]
    ELSE IF writeOk THEN [log |-> Append(log, event), raised |-> FALSE, failed |-> FALSE]
    ELSE [log |-> log, raised |-> FALSE, failed |-> TRUE]

(***************************************************************************)
(* The oracle                                                              *)
(***************************************************************************)
\* What the chat-completion call of one choose_move does:
\*   forced_bad  LLM_FORCE_BAD_OUTPUT=1 is set
\*   raises      the call raises
\*   empty       the content is None or ""
\*   prose       the content holds no JSON object
\*   json        the content holds the JSON object [action, isInt, index]
NoAnswer == [action |-> "", isInt |-> FALSE, index |-> 0]

Actions == {"move", "switch", "force_switch", "pass", NoneStr}

Answers ==
    [action : Actions, isInt : {TRUE}, index : (-1)..MaxIndex]
    \cup [action : Actions, isInt : {FALSE}, index : {0}]

Oracles ==
    {[kind |-> k, answer |-> NoAnswer] : k \in {"forced_bad", "raises", "empty", "prose"}}
    \cup {[kind |-> "json", answer |-> a] : a \in Answers}

NoDec == [action |-> "", index |-> 0, reason |-> ""]
NoVerdict == [called |-> FALSE, ok |-> FALSE, err |-> ""]
NoOrder == [kind |-> "none", list |-> "", pos |-> 0, ref |-> ""]

\* _llm_decide(state, rows) with the given client, TRACE_FILE and write outcome:
\* raised/err when it raises, dec when it returns.
llm_decide(cl, file, writeOk, st, rows, orc) ==
    LET fail(e, t, v) == [raised |-> TRUE,
                          err |-> IF t.raised THEN "trace_error" ELSE e,
                          dec |-> NoDec, verdict |-> v, log |-> t.log,
                          failed |-> t.failed]
        silent == [log |-> <<>>, raised |-> FALSE, failed |-> FALSE]
    IN  IF orc.kind = "forced_bad"
        THEN fail("forced_bad_output",
                  Trace(file, writeOk, <<>>, [event |-> "llm_forced_bad", error |-> ""]),
                  NoVerdict)
        ELSE IF ~cl THEN fail("no_openai_client", silent, NoVerdict)
        ELSE IF orc.kind = "raises" THEN fail("api_error", silent, NoVerdict)
        ELSE IF orc.kind \in {"empty", "prose"}
        THEN fail("no_json_object_found",
                  Trace(file, writeOk, <<>>,
                        [event |-> "llm_bad_json", error |-> "no_json_object_found"]),
                  NoVerdict)
        ELSE LET v == validate_decision(orc.answer, rows, st)
                 called == [called |-> TRUE, ok |-> v.ok, err |-> v.err]
             IN  IF ~v.ok
                 THEN fail(v.err,
                           Trace(file, writeOk, <<>>,
                                 [event |-> "llm_bad_decision", error |-> v.err]),
                           called)
                 ELSE LET t == Trace(file, writeOk, <<>>,
                                     [event |-> "llm_ok", error |-> ""])
                      IN  IF t.raised THEN fail("", t, called)
                          ELSE [raised |-> FALSE, err |-> "",
                                dec |-> [action |-> orc.answer.action,
                                         index |-> orc.answer.index,
                                         reason |-> "llm"],
                                verdict |-> called, log |-> t.log,
                                failed |-> t.failed]

FallbackUnguarded(st, mrows, srows) ==
    IF st.force_switch /\ srows # <<>>
    THEN [raised |-> FALSE,
          dec |-> [action |-> "switch", index |-> 0, reason |-> "fallback:force_switch"]]
    ELSE IF mrows = <<>>
    THEN [raised |-> TRUE, dec |-> NoDec]
    ELSE [raised |-> FALSE,
          dec |-> [action |-> "move", index |-> best_index(mrows),
                   reason |-> "fallback:expected-damage"]]

\* The except branch of choose_move: the fallback decision
fallback(st, mrows, srows) ==
    IF st.force_switch /\ srows # <<>>
    THEN [raised |-> FALSE,
          dec |-> [action |-> "switch", index |-> 0, reason |-> "fallback:force_switch"]]
    ELSE IF mrows # <<>>
    THEN [raised |-> FALSE,
          dec |-> [action |-> "move", index |-> best_index(mrows),
                   reason |-> "fallback:expected-damage"]]
    ELSE [raised |-> FALSE,
          dec |-> [action |-> "move", index |-> 0, reason |-> "fallback:default"]]

CreateOrder(list, l, i) ==
    [kind |-> "order", list |-> list, pos |-> i,
     ref |-> IF list = "moves" THEN At(l, i).id ELSE At(l, i).species]

EmitClampShort(d, moves, switches, mrows, srows) ==
    IF d.action \in {"move", "force_switch"} /\ mrows # <<>>
    THEN CreateOrder("moves", moves, Max(0, Min(d.index, Len(moves) - 2)))
    ELSE IF d.action = "switch" /\ srows # <<>>
    THEN CreateOrder("switches", switches, Max(0, Min(d.index, Len(switches) - 2)))
    ELSE IF moves # <<>> THEN CreateOrder("moves", moves, 0)
    ELSE [kind |-> "random", list |-> "", pos |-> 0, ref |-> ""]

\* The tail of choose_move: the order built from dec, or choose_random_move
emit(d, moves, switches, mrows, srows) ==
    IF d.action \in {"move", "force_switch"} /\ mrows # <<>>
    THEN CreateOrder("moves", moves, Max(0, Min(d.index, Len(moves) - 1)))
    ELSE IF d.action = "switch" /\ srows # <<>>
    THEN CreateOrder("switches", switches, Max(0, Min(d.index, Len(switches) - 1)))
    ELSE IF moves # <<>> THEN CreateOrder("moves", moves, 0)
    ELSE [kind |-> "random", list |-> "", pos |-> 0, ref |-> ""]

\* dump_mon (hp_pct -1 stands for None)
dump_mon(p) ==
    IF p = <<>>
    THEN [species |-> "unknown", types |-> <<>>, hp_pct |-> -1, status |-> NoStatus]
    ELSE LET q == p[1]
             got == IF "species" \notin q.absent
                    THEN (IF "species" \in q.none THEN NoneStr ELSE q.species)
                    ELSE IF "name" \notin q.absent
                    THEN (IF "name" \in q.none THEN NoneStr ELSE q.name)
                    ELSE "unknown"
         IN  [species |-> Lower(IF got = NoneStr THEN "unknown" ELSE got),
              types |-> safe_types(q), hp_pct |-> hp_pct(q), status |-> status_of(q)]

(***************************************************************************)
(* choose_move, one call per battle request                                *)
(***************************************************************************)
Battles ==
    [active_pokemon : {<<>>, <<Charmander>>},
     available_moves : ListsOf(MoveDex, MaxMoves),
     available_switches : ListsOf(MonDex, MaxSwitches),
     force_switch : BOOLEAN]

NoBattle == [active_pokemon |-> <<>>, available_moves |-> <<>>,
             available_switches |-> <<>>, force_switch |-> FALSE]
NoState == [force_switch |-> FALSE, my_active |-> dump_mon(<<>>)]
NoExtract == [ok |-> FALSE, first |-> 0, last |-> 0]

Blank ==
    /\ move_rows = <<>> /\ switch_rows = <<>> /\ state = NoState
    /\ verdict = NoVerdict /\ failure = "" /\ dec = NoDec /\ order = NoOrder
    /\ raised = FALSE /\ trace = <<>> /\ ioErrors = 0

Init ==
    /\ client \in BOOLEAN
    /\ traceFile \in BOOLEAN
    /\ pc = "idle"
    /\ battle = NoBattle
    /\ oracle = [kind |-> "raises", answer |-> NoAnswer]
    /\ Blank
    /\ text = <<>>
    /\ extracted = NoExtract

\* The battle client asks for the next action
Begin(b, o) ==
    /\ pc = "idle"
    /\ pc' = "encode"
    /\ battle' = b
    /\ oracle' = o
    /\ move_rows' = <<>> /\ switch_rows' = <<>> /\ state' = NoState
    /\ verdict' = NoVerdict /\ failure' = "" /\ dec' = NoDec /\ order' = NoOrder
    /\ raised' = FALSE /\ trace' = <<>> /\ ioErrors' = 0
    /\ UNCHANGED <<client, traceFile, text, extracted>>

Request == pc = "idle" /\ \E b \in Battles, o \in Oracles : Begin(b, o)

\* choose_move up to rows_for_llm: the candidate rows and the state summary
Encode ==
    /\ pc = "encode"
    /\ LET m == EncodeMoves(battle.available_moves, battle.active_pokemon)
           s == EncodeSwitches(battle.available_switches)
       IN  IF m.raised \/ s.raised
           THEN /\ raised' = TRUE
                /\ pc' = "done"
                /\ UNCHANGED <<move_rows, switch_rows, state>>
           ELSE /\ move_rows' = m.rows
                /\ switch_rows' = s.rows
                /\ state' = [force_switch |-> battle.force_switch,
                             my_active |-> dump_mon(battle.active_pokemon)]
                /\ pc' = "decide"
                /\ UNCHANGED raised
    /\ UNCHANGED <<client, traceFile, battle, oracle, verdict, failure, dec, order,
                   trace, ioErrors, text, extracted>>

\* dec = self._llm_decide(state, rows_for_llm), or the exception it raises
Decide ==
    /\ pc = "decide"
    /\ \E writeOk \in BOOLEAN :
         LET r == llm_decide(client, traceFile, writeOk, state,
                             move_rows \o switch_rows, oracle)
         IN  /\ verdict' = r.verdict
             /\ trace' = trace \o r.log
             /\ ioErrors' = ioErrors + (IF r.failed THEN 1 ELSE 0)
             /\ IF r.raised
                THEN /\ failure' = r.err
                     /\ pc' = "fallback"
                     /\ UNCHANGED dec
                ELSE /\ dec' = r.dec
                     /\ pc' = "emit"
                     /\ UNCHANGED failure
    /\ UNCHANGED <<client, traceFile, battle, oracle, move_rows, switch_rows, state,
                   order, raised, text, extracted>>

\* The except branch: the fallback decision and its fallback_exception event
Fallback ==
    /\ pc = "fallback"
    /\ \E writeOk \in BOOLEAN :
         LET f == fallback(state, move_rows, switch_rows)
             t == Trace(traceFile, writeOk, trace,
                        [event |-> "fallback_exception", error |-> failure])
         IN  IF f.raised
             THEN /\ raised' = TRUE
                  /\ pc' = "done"
                  /\ UNCHANGED <<dec, trace, ioErrors>>
             ELSE /\ dec' = f.dec
                  /\ trace' = t.log
                  /\ ioErrors' = ioErrors + (IF t.failed THEN 1 ELSE 0)
                  /\ raised' = t.raised
                  /\ pc' = IF t.raised THEN "done" ELSE "emit"
    /\ UNCHANGED <<client, traceFile, battle, oracle, move_rows, switch_rows, state,
                   verdict, failure, order, text, extracted>>

\* The order creation that ends choose_move
Emit ==
    /\ pc = "emit"
    /\ order' = emit(dec, battle.available_moves, battle.available_switches,
                     move_rows, switch_rows)
    /\ pc' = "done"
    /\ UNCHANGED <<client, traceFile, battle, oracle, move_rows, switch_rows, state,
                   verdict, failure, dec, raised, trace, ioErrors, text, extracted>>

\* choose_move has returned or raised; its locals are gone
Return ==
    /\ pc = "done"
    /\ pc' = "idle"
    /\ battle' = NoBattle
    /\ oracle' = [kind |-> "raises", answer |-> NoAnswer]
    /\ move_rows' = <<>> /\ switch_rows' = <<>> /\ state' = NoState
    /\ verdict' = NoVerdict /\ failure' = "" /\ dec' = NoDec /\ order' = NoOrder
    /\ raised' = FALSE /\ trace' = <<>> /\ ioErrors' = 0
    /\ UNCHANGED <<client, traceFile, text, extracted>>

Next == Request \/ Encode \/ Decide \/ Fallback \/ Emit \/ Return

Spec == Init /\ [][Next]_vars

(***************************************************************************)
(* Properties of choose_move                                               *)
(***************************************************************************)
Moves == battle.available_moves
Switches == battle.available_switches
Answer == oracle.answer
Returned == pc = "done" /\ ~raised
Failed == failure # ""
FallbackReasons == {"fallback:force_switch", "fallback:expected-damage", "fallback:default"}

\* C1: choose_move never raises and always returns a command (an order or the
\* client's random choice), whatever the list lengths, the forced-switch flag and
\* the oracle outcome; a failure of _llm_decide is replaced by a fallback decision.
C1_AlwaysReturnsACommand ==
    /\ ~raised
    /\ pc = "done" => order.kind \in {"order", "random"}
    /\ (pc \in {"emit", "done"} /\ Failed) => dec.reason \in FallbackReasons
    /\ (pc \in {"emit", "done"} /\ ~Failed) => dec.reason = "llm"

C1_Witness ==
    /\ Returned /\ Failed
    /\ Moves = <<>> /\ Switches = <<>>
    /\ oracle.kind = "json" /\ verdict.called
    /\ order.kind = "random"

\* C2: the fallback decision is {switch, 0} when the forced-switch flag is set and a
\* switch candidate exists; else {move, i} with i the smallest index of maximal
\* score when a move candidate exists; else {move, 0}.
C2_FallbackPriority ==
    (pc \in {"emit", "done"} /\ Failed /\ ~raised) =>
        IF battle.force_switch /\ Len(Switches) >= 1
        THEN dec.action = "switch" /\ dec.index = 0
        ELSE IF Len(Moves) >= 1
        THEN /\ dec.action = "move"
             /\ dec.index \in 0..(Len(move_rows) - 1)
             /\ \A j \in 0..(Len(move_rows) - 1) :
                    score_move_row(At(move_rows, j))
                        <= score_move_row(At(move_rows, dec.index))
             /\ \A j \in 0..(dec.index - 1) :
                    score_move_row(At(move_rows, j))
                        < score_move_row(At(move_rows, dec.index))
        ELSE dec.action = "move" /\ dec.index = 0

C2_Witness ==
    /\ Returned /\ Failed
    /\ dec.action = "move" /\ dec.index = 0
    /\ Len(move_rows) = 2
    /\ score_move_row(move_rows[1]) = score_move_row(move_rows[2])
    /\ score_move_row(move_rows[1]) > 0

IndexInRange ==
    IF Answer.action = "switch"
    THEN 0 <= Answer.index /\ Answer.index < Len(Switches)
    ELSE 0 <= Answer.index /\ Answer.index < Len(Moves)

\* C3: for an action in {move, switch, force_switch} with an integer index, and the
\* forced-switch rule not applying, _validate_decision accepts exactly when the index
\* is in [0, #move candidates) for move and force_switch, [0, #switch candidates) for
\* switch; a rejection carries index_out_of_range_move or index_out_of_range_switch.
C3_RangeRule ==
    (/\ verdict.called
     /\ Answer.action \in {"move", "switch", "force_switch"}
     /\ Answer.isInt
     /\ ~(state.force_switch /\ Answer.action = "move")) =>
        /\ verdict.ok <=> IndexInRange
        /\ ~verdict.ok =>
               verdict.err = IF Answer.action = "switch"
                             THEN "index_out_of_range_switch"
                             ELSE "index_out_of_range_move"

C3_Witness ==
    /\ verdict.called /\ ~verdict.ok
    /\ Answer.action = "force_switch" /\ Answer.isInt
    /\ Answer.index = Len(Moves) /\ Len(Moves) >= 1
    /\ verdict.err = "index_out_of_range_move"

\* C4: with the forced-switch flag set, _validate_decision rejects every decision
\* whose action is move with must_switch, the index in the move range or not.
C4_MustSwitch ==
    (verdict.called /\ state.force_switch /\ Answer.action = "move" /\ Answer.isInt) =>
        ~verdict.ok /\ verdict.err = "must_switch"

C4_Witness ==
    /\ verdict.called /\ state.force_switch
    /\ Answer.action = "move" /\ Answer.isInt
    /\ Answer.index >= Len(Moves)
    /\ verdict.err = "must_switch"

\* C5: a decision that passes validation is emitted as the order of exactly the
\* candidate it names: legal_moves[index] for move and force_switch,
\* legal_switches[index] for switch; it is never clamped to another index nor
\* replaced by a fallback or the random choice.
C5_ValidatedDecisionIsEmitted ==
    (pc = "done" /\ verdict.called /\ verdict.ok) =>
        /\ ~raised /\ ~Failed
        /\ order.kind = "order"
        /\ order.pos = Answer.index
        /\ IF Answer.action = "switch"
           THEN order.list = "switches" /\ order.ref = At(Switches, Answer.index).species
           ELSE order.list = "moves" /\ order.ref = At(Moves, Answer.index).id

C5_Witness ==
    /\ Returned /\ verdict.called /\ verdict.ok
    /\ Answer.action = "switch" /\ Answer.index = 1
    /\ Len(Switches) = 2 /\ Len(Moves) = 2
    /\ order.list = "switches" /\ order.pos = 1

\* C9: choose_move defers to choose_random_move exactly when the legal-moves list
\* and the legal-switches list are both empty; otherwise the order is built from a
\* member of those lists.
C9_RandomOnlyWhenNothingIsLegal ==
    Returned =>
        /\ order.kind = "random" <=> (Moves = <<>> /\ Switches = <<>>)
        /\ order.kind = "order" =>
               \/ order.list = "moves" /\ \E k \in DOMAIN Moves : Moves[k].id = order.ref
               \/ order.list = "switches"
                      /\ \E k \in DOMAIN Switches : Switches[k].species = order.ref

\* The order choose_move emits when nothing is ever written to the event log
OrderWithoutLog ==
    LET r == llm_decide(client, FALSE, TRUE, state, move_rows \o switch_rows, oracle)
        d == IF r.raised THEN fallback(state, move_rows, switch_rows).dec ELSE r.dec
    IN  emit(d, Moves, Switches, move_rows, switch_rows)

\* C10: event logging never influences the decision: with the log disabled, enabled
\* and written, or enabled with writes failing, choose_move raises nothing and emits
\* the order it emits without a log; only the logged lines differ.
C10_LogDoesNotInfluence ==
    /\ pc = "done" => ~raised /\ order = OrderWithoutLog
    /\ ~traceFile => trace = <<>> /\ ioErrors = 0
    /\ pc \in {"emit", "done"} =>
           Len(trace) + ioErrors = IF ~traceFile THEN 0
                                   ELSE IF oracle.kind # "forced_bad"
                                           /\ (~client \/ oracle.kind = "raises")
                                   THEN 1
                                   ELSE IF Failed THEN 2 ELSE 1

C10_Witness ==
    /\ Returned /\ traceFile /\ ioErrors = 1 /\ trace = <<>>
    /\ verdict.called /\ verdict.ok
    /\ order.kind = "order"

(***************************************************************************)
(* choose_move on upstream objects with unreadable attributes              *)
(***************************************************************************)
\* o with at most MaxDefects of attrs absent or None
Defective(o, attrs) ==
    UNION {{[o EXCEPT !.absent = ab, !.none = d \ ab] : ab \in SUBSET d} :
           d \in {x \in SUBSET attrs : Cardinality(x) <= MaxDefects}}

\* Raw accuracies: 0, a fraction, 1.0, percentages 85 and 100, -0.5, 150
AccValues == {0, 5000, One, 85 * One, 100 * One, -5000, 150 * One}

RawMoves == Defective(Tackle, MoveAttrs) \cup {[Tackle EXCEPT !.accuracy = a] : a \in AccValues}
RawMons == Defective(Pidgey, MonAttrs)

InitEnc ==
    /\ client = FALSE
    /\ traceFile = FALSE
    /\ pc = "idle"
    /\ battle = NoBattle
    /\ oracle = [kind |-> "raises", answer |-> NoAnswer]
    /\ Blank
    /\ text = <<>>
    /\ extracted = NoExtract

RequestRawMoves ==
    /\ pc = "idle"
    /\ \E ms \in ListsOf(RawMoves, MaxEncMoves) :
        Begin([active_pokemon |-> <<Charmander>>, available_moves |-> ms,
               available_switches |-> <<Ditto>>, force_switch |-> FALSE],
              [kind |-> "raises", answer |-> NoAnswer])

RequestRawSwitches ==
    /\ pc = "idle"
    /\ \E ss \in ListsOf(RawMons, MaxSwitches) :
        Begin([active_pokemon |-> <<Charmander>>, available_moves |-> <<Growl>>,
               available_switches |-> ss, force_switch |-> FALSE],
              [kind |-> "raises", answer |-> NoAnswer])

NextEnc ==
    RequestRawMoves \/ RequestRawSwitches \/ Encode \/ Decide \/ Fallback \/ Emit \/ Return

SpecEnc == InitEnc /\ [][NextEnc]_vars

Encoded == pc \in {"decide", "fallback", "emit", "done"}

\* C7: whatever the raw accuracy of a legal move (None, 0, a fraction, a percentage,
\* negative, above 100, unreadable), the encoded accuracy lies in [0, 1], and None
\* and 0 are encoded as 1.0.
C7_AccuracyNormalized ==
    (Encoded /\ ~raised) =>
        \A k \in DOMAIN move_rows :
            /\ 0 <= move_rows[k].accuracy /\ move_rows[k].accuracy <= One
            /\ ("accuracy" \in Moves[k].none
                    \/ ("accuracy" \notin Moves[k].absent /\ Moves[k].accuracy = 0))
                   => move_rows[k].accuracy = One

\* C8: with any attributes of the legal moves and legal switches absent or None,
\* encoding does not raise and yields one move candidate per legal move and one
\* switch candidate per legal switch, each indexed by its position in the upstream
\* list, the unreadable attributes replaced by their defaults.
C8_EncodingNeverDropsACandidate ==
    pc \in {"decide", "fallback", "emit", "done"} =>
        /\ ~raised
        /\ Len(move_rows) = Len(Moves)
        /\ Len(switch_rows) = Len(Switches)
        /\ \A k \in DOMAIN move_rows :
               /\ move_rows[k].kind = "move" /\ move_rows[k].index = k - 1
               /\ ~Readable(Moves[k], "type") => move_rows[k].type = "UNKNOWN"
               /\ ~Readable(Moves[k], "base_power") => move_rows[k].base_power = 0
               /\ ~Readable(Moves[k], "accuracy") => move_rows[k].accuracy = One
               /\ ~Readable(Moves[k], "priority") => move_rows[k].priority = 0
               /\ ~Readable(Moves[k], "damage_class") => move_rows[k].category = "STATUS"
        /\ \A k \in DOMAIN switch_rows :
               /\ switch_rows[k].kind = "switch" /\ switch_rows[k].index = k - 1
               /\ ~Readable(Switches[k], "types") => switch_rows[k].types = <<>>
               /\ ~Readable(Switches[k], "status") => switch_rows[k].status = NoStatus
               /\ (~Readable(Switches[k], "current_hp") \/ ~Readable(Switches[k], "max_hp"))
                      => switch_rows[k].hp_pct = 100

(***************************************************************************)
(* _extract_json                                                           *)
(*                                                                         *)
(* A text is a sequence of characters of Chars.  On this alphabet a JSON   *)
(* value is a string or an object, a string is a quote, characters other   *)
(* than the quote, and a quote, and an object is {} or {string:value},     *)
(* with spaces allowed between the tokens: json.loads accepts exactly      *)
(* this.  Positions are 1-based; 0 stands for "no such position".          *)
(***************************************************************************)
LBrace == "{"
RBrace == "}"
Quote == "\""
Colon == ":"
Space == " "
Chars == {LBrace, RBrace, Quote, Colon, Space}

\* str.strip()
RECURSIVE StripLeft(_)
StripLeft(t) == IF t # <<>> /\ Head(t) = Space THEN StripLeft(Tail(t)) ELSE t

RECURSIVE StripRight(_)
StripRight(t) ==
    IF t # <<>> /\ t[Len(t)] = Space THEN StripRight(SubSeq(t, 1, Len(t) - 1)) ELSE t

Strip(t) == StripRight(StripLeft(t))

\* The first position from i on that holds no space (Len(t) + 1 if none)
RECURSIVE SkipWs(_, _)
SkipWs(t, i) == IF i <= Len(t) /\ t[i] = Space THEN SkipWs(t, i + 1) ELSE i

\* The position of the first quote from i on
RECURSIVE QuoteFrom(_, _)
QuoteFrom(t, i) ==
    IF i > Len(t) THEN 0 ELSE IF t[i] = Quote THEN i ELSE QuoteFrom(t, i + 1)

\* The last position of the JSON value that starts at i
RECURSIVE ValueEnd(_, _)
ValueEnd(t, i) ==
    IF i > Len(t) THEN 0
    ELSE IF t[i] = Quote THEN QuoteFrom(t, i + 1)
    ELSE IF t[i] # LBrace THEN 0
    ELSE LET j == SkipWs(t, i + 1)
         IN  IF j > Len(t) THEN 0
             ELSE IF t[j] = RBrace THEN j
             ELSE IF t[j] # Quote THEN 0
             ELSE LET k == QuoteFrom(t, j + 1)
                      c == SkipWs(t, k + 1)
                  IN  IF k = 0 \/ c > Len(t) THEN 0
                      ELSE IF t[c] # Colon THEN 0
                      ELSE LET e == ValueEnd(t, SkipWs(t, c + 1))
                               z == SkipWs(t, e + 1)
                           IN  IF e = 0 \/ z > Len(t) THEN 0
                               ELSE IF t[z] = RBrace THEN z ELSE 0

\* json.loads(t) returns a dict
LoadsDict(t) ==
    LET i == SkipWs(t, 1)
    IN  /\ i <= Len(t)
        /\ t[i] = LBrace
        /\ ValueEnd(t, i) # 0
        /\ SkipWs(t, ValueEnd(t, i) + 1) > Len(t)

\* The inner loop: the position where the brace depth first returns to 0
RECURSIVE BalancedEnd(_, _, _)
BalancedEnd(t, pos, depth) ==
    IF pos > Len(t) THEN 0
    ELSE IF t[pos] = LBrace THEN BalancedEnd(t, pos + 1, depth + 1)
    ELSE IF t[pos] = RBrace
    THEN (IF depth - 1 = 0 THEN pos ELSE BalancedEnd(t, pos + 1, depth - 1))
    ELSE BalancedEnd(t, pos + 1, depth)

\* The outer loop from position start on
RECURSIVE ScanFrom(_, _)
ScanFrom(t, start) ==
    IF start > Len(t) THEN NoExtract
    ELSE IF t[start] # LBrace THEN ScanFrom(t, start + 1)
    ELSE LET e == BalancedEnd(t, start, 0)
         IN  IF e # 0 /\ LoadsDict(SubSeq(t, start, e))
             THEN [ok |-> TRUE, first |-> start, last |-> e]
             ELSE ScanFrom(t, start + 1)

\* _extract_json(raw): the span of the stripped text that was parsed and returned,
\* or not ok when it raises no_json_object_found
extract_json(raw) ==
    LET t == Strip(raw)
    IN  IF LoadsDict(t) THEN [ok |-> TRUE, first |-> 1, last |-> Len(t)]
        ELSE ScanFrom(t, 1)

InitJson ==
    /\ client = FALSE
    /\ traceFile = FALSE
    /\ pc = "typing"
    /\ battle = NoBattle
    /\ oracle = [kind |-> "raises", answer |-> NoAnswer]
    /\ Blank
    /\ text = <<>>
    /\ extracted = NoExtract

Untouched ==
    UNCHANGED <<client, traceFile, battle, oracle, move_rows, switch_rows, state,
                verdict, failure, dec, order, raised, trace, ioErrors>>

\* The oracle's content grows by one character
Receive ==
    /\ pc = "typing"
    /\ Len(text) < MaxTextLen
    /\ \E c \in Chars : text' = Append(text, c)
    /\ UNCHANGED <<pc, extracted>>
    /\ Untouched

\* dec = _extract_json(raw)
Extract ==
    /\ pc = "typing"
    /\ extracted' = extract_json(text)
    /\ pc' = "extracted"
    /\ UNCHANGED text
    /\ Untouched

NextJson == Receive \/ Extract

SpecJson == InitJson /\ [][NextJson]_vars

\* The leftmost position of Strip(text) where a complete JSON object starts
FirstObjectStart ==
    LET t == Strip(text)
        starts == {i \in 1..Len(t) : t[i] = LBrace /\ ValueEnd(t, i) # 0}
    IN  IF starts = {} THEN 0
        ELSE CHOOSE i \in starts : \A j \in starts : i <= j

\* C6: _extract_json returns the first complete JSON object of the text (the one at
\* the leftmost opening brace that begins a complete object), whatever surrounds it
\* and whatever its strings hold, braces included; it fails only when the text holds
\* no complete object; a stripped text that is one object is returned whole.
C6_FirstCompleteObject ==
    pc = "extracted" =>
        LET t == Strip(text)
        IN  /\ extracted.ok <=> FirstObjectStart # 0
            /\ extracted.ok =>
                   /\ extracted.first = FirstObjectStart
                   /\ extracted.last = ValueEnd(t, FirstObjectStart)
            /\ LoadsDict(t) => extracted = [ok |-> TRUE, first |-> 1, last |-> Len(t)]

(***************************************************************************)
(* Forced switch                                                           *)
(***************************************************************************)
\* C11: whenever the forced-switch flag is set and a switch candidate exists, the
\* order choose_move emits is built from a member of the legal-switches list and
\* never from the legal-moves list, for every oracle outcome (a validated
\* force_switch decision included) and every length of the legal-moves list.
C11_ForcedSwitchEmitsASwitch ==
    (pc = "done" /\ battle.force_switch /\ Len(Switches) >= 1) =>
        /\ ~raised
        /\ order.kind = "order"
        /\ order.list = "switches"
        /\ \E k \in DOMAIN Switches : Switches[k].species = order.ref

====
